---- MODULE Spec2Model ----
(***************************************************************************)
(* Model of the Project State Engine (the useAreas hook) of the shapefile  *)
(* viewer: one active project holding a flat list of areas, a dirty flag   *)
(* and a selected area, mutated by the hook's callbacks.                   *)
(*                                                                         *)
(* Area ids and feature ids are strings in the program; they are modelled  *)
(* as small integers.  An area is a record [id, parentId, featureIds]; the *)
(* name and color fields are carried along untouched by every operation    *)
(* modelled here and are left out of the record.                           *)
(*                                                                         *)
(* The pure functions of the repository (feature id encoding, area tree,   *)
(* color palette) are operators; a specification made for one of them      *)
(* draws a call from a bounded set of arguments and applies the function.  *)
(* Strings are sequences of one-character strings.                         *)
(***************************************************************************)
EXTENDS Integers, Sequences, FiniteSets, TLC

\* ---- bounds ------------------------------------------------------------
MaxAreaId == 2
MaxFeature == 2
MaxInput == 2
MaxFileAreas == 2
MaxFileFeature == 1
MaxFileFeatureIds == 1
MaxStr == 4          \* longest string handed to parseFeatureId
MaxLayerId == 1      \* longest layer id
MaxMantissa == 3     \* an index is m * 10^e with m up to this
MaxZeros == 21       \* and e up to this
MaxCount == 51       \* largest count asked of the palette generator
MaxUsed == 25        \* longest list of used colors
MaxDrag == 4         \* the pointer is at DragStep * i, i up to this
MaxLayers == 3       \* most layers loaded and loading together
MaxLoads == 2        \* most calls of addLayerFromFiles under way together

RECURSIVE SeqsUpTo(_, _)
SeqsUpTo(S, n) ==
  IF n = 0 THEN {<<>>}
  ELSE LET shorter == SeqsUpTo(S, n - 1)
       IN shorter \cup {Append(s, x) : s \in {t \in shorter : Len(t) = n - 1}, x \in S}

Range(s) == {s[i] : i \in 1..Len(s)}

\* ---- value domains -----------------------------------------------------
\* null (parentId of a root area, no selection)
Null == 0

\* ids generateAreaId can produce
AreaIds == 1..MaxAreaId

\* an id string that generateAreaId never produces
UnknownId == MaxAreaId + 1

\* ids a caller can pass to an operation (existing, not yet existing, unknown)
CallIds == AreaIds \cup {UnknownId}

ParentIds == CallIds \cup {Null}

FeatureIds == 1..MaxFeature

\* the feature ids that occur in project files, in updateArea's updates and in
\* the calls of the specification with every operation
FileFeatureIds == 1..MaxFileFeature

\* the featureIds arrays built from them
FileFeatureLists == SeqsUpTo(FileFeatureIds, MaxFileFeatureIds)

\* the deepest chain of calls collectDescendants can make without meeting an
\* id twice: one frame per distinct id
StackLimit == MaxAreaId + 1


\* ---- state -------------------------------------------------------------
VARIABLES
  project,          \* [open, areas]: open = FALSE is the program's null
  isDirty,
  selectedAreaId,
  usedIds,          \* area ids that exist somewhere already (see generateAreaId)
  crashed,          \* a state updater or a render threw
  error,            \* TRUE when the error message is set, FALSE when it is null
  last,             \* the call that produced this state: operation, area id,
                    \* and whether it left another project value than it found
  call,             \* the call of a pure function under way: [fn, arg]
  ret,              \* what it returned: [done, val]
  sidebar,          \* useResizableSidebar: [width, isResizing, startX,
                    \* startWidth, stored], stored the localStorage item
  layers,           \* useLayers: the layer list, each layer [id, name]
  layerIsLoading,   \* useLayers: isLoading
  layerError,       \* useLayers: TRUE when error is a message
  loads,            \* the calls of addLayerFromFiles waiting for the decoder:
                    \* [name, seen, decodes], seen the layers of the closure
  isLoading,        \* useAreas: isLoading
  running           \* useAreas: the calls of openProject, saveProject and
                    \* saveProjectAs at an await: [op, stage, project], project
                    \* the one of the closure

vars == <<project, isDirty, selectedAreaId, usedIds, crashed, error, last,
          call, ret,
          sidebar, layers, layerIsLoading, layerError, loads,
              isLoading, running>>

NoProject == [open |-> FALSE, name |-> <<>>, areas |-> <<>>]

createEmptyProject(name) == [open |-> TRUE, name |-> name, areas |-> <<>>]

NoUpdate == [setName |-> FALSE, name |-> "",
             setColor |-> FALSE, color |-> <<>>,
             setParent |-> FALSE, parentId |-> Null,
             setFeatures |-> FALSE, featureIds |-> <<>>]

Call(op, id) == [op |-> op, id |-> id]

\* the hook as useState leaves it at the first render
InitProject ==
  /\ project = NoProject
  /\ isDirty = FALSE
  /\ selectedAreaId = Null
  /\ usedIds = {}
  /\ crashed = FALSE
  /\ error = FALSE
  /\ isLoading = FALSE
  /\ running = <<>>

\* the sidebar mounted with nothing in storage
SidebarAtRest ==
  [width |-> 320, isResizing |-> FALSE, startX |-> 0, startWidth |-> 0,
   stored |-> [has |-> FALSE, str |-> <<>>]]

\* useLayers at its first render
InitLayers ==
  /\ layers = <<>>
  /\ layerIsLoading = FALSE
  /\ layerError = FALSE
  /\ loads = <<>>

InitState ==
  /\ InitProject
  /\ sidebar = SidebarAtRest
  /\ InitLayers

InitHook ==
  /\ InitState
  /\ last = [op |-> "init", id |-> Null, changed |-> FALSE]

\* the value of last in the specifications that keep no record of the calls
Untraced == [op |-> "untraced", id |-> Null, changed |-> FALSE]

NoCall == [fn |-> "none", arg |-> <<>>]

NotReturned == [done |-> FALSE, val |-> <<>>]

Returned(v) == [done |-> TRUE, val |-> v]

Init ==
  /\ InitHook
  /\ call = NoCall
  /\ ret = NotReturned

InitUntraced ==
  /\ InitState
  /\ last = Untraced
  /\ call = NoCall
  /\ ret = NotReturned


\* ---- pure helpers ------------------------------------------------------
Min(S) == CHOOSE x \in S : \A y \in S : x <= y

Max(S) == CHOOSE x \in S : \A y \in S : x >= y

\* `area-${Date.now()}-${random}`: an id no area has had so far; modelled as
\* the smallest id not yet used
generateAreaId(used) == Min(AreaIds \ used)

MapAreas(areas, F(_)) == [i \in 1..Len(areas) |-> F(areas[i])]

FilterSeq(s, Keep(_)) == SelectSeq(s, Keep)

\* the check written with every() in place of some()
isAlreadyAssignedEvery(areas, featureId) ==
  \A i \in 1..Len(areas) : featureId \in Range(areas[i].featureIds)

\* prev.areas.some((a) => a.featureIds.includes(featureId))
isAlreadyAssigned(areas, featureId) ==
  \E i \in 1..Len(areas) : featureId \in Range(areas[i].featureIds)

\* the set built by the two nested loops of addFeaturesToArea
assignedIds(areas) ==
  UNION {Range(areas[i].featureIds) : i \in 1..Len(areas)}

\* the recursion of removeArea.  depth is the number of frames on the call
\* stack; the program has no such parameter and recurses until the engine's
\* stack is exhausted, which the model reports as overflow
RECURSIVE collectDescendants(_, _, _)
collectDescendants(areas, areaId, depth) ==
  IF depth > StackLimit
  THEN [ids |-> {areaId}, overflow |-> TRUE]
  ELSE LET sub == [i \in 1..Len(areas) |->
                     IF areas[i].parentId = areaId
                     THEN collectDescendants(areas, areas[i].id, depth + 1)
                     ELSE [ids |-> {}, overflow |-> FALSE]]
       IN [ids |-> {areaId} \cup UNION {sub[i].ids : i \in 1..Len(areas)},
           overflow |-> \E i \in 1..Len(areas) : sub[i].overflow]

\* ---- the color queries ---------------------------------------------------
\* null, where a color is expected
NoColor == <<>>

\* project.areas.find((a) => a.featureIds.includes(featureId))?.color ?? null
getAreaColor(proj, featureId) ==
  LET holders == {i \in 1..Len(proj.areas) :
                    featureId \in Range(proj.areas[i].featureIds)}
  IN IF ~proj.open \/ holders = {} THEN NoColor
     ELSE proj.areas[Min(holders)].color

\* the Map after the loop has run over the first n areas: map.set replaces
\* the entry an earlier area made
RECURSIVE colorMapUpTo(_, _)
colorMapUpTo(list, n) ==
  IF n = 0 THEN <<>>
  ELSE LET before == colorMapUpTo(list, n - 1)
           own == Range(list[n].featureIds)
       IN [f \in (DOMAIN before) \cup own |->
             IF f \in own THEN list[n].color ELSE before[f]]

\* the loop entering the first feature of each area only
areaColorMapFirstFeature(proj) ==
  LET firsts == {i \in 1..Len(proj.areas) : proj.areas[i].featureIds # <<>>}
  IN [f \in {proj.areas[i].featureIds[1] : i \in firsts} |->
        proj.areas[Max({i \in firsts : proj.areas[i].featureIds[1] = f})].color]

areaColorMap(proj) ==
  IF ~proj.open THEN <<>> ELSE colorMapUpTo(proj.areas, Len(proj.areas))

\* ---- the updaters passed to setProject ----------------------------------
\* an updater that puts the new area first
addAreaUpdateFront(areas, newArea) == <<newArea>> \o areas

addAreaUpdate(areas, newArea) == Append(areas, newArea)

removeAreaUpdate(areas, idsToRemove) ==
  LET Keep(a) == a.id \notin idsToRemove
  IN FilterSeq(areas, Keep)

\* { ...a, ...updates }
MergeUpdate(a, upd) ==
  [id |-> a.id,
   name |-> IF upd.setName THEN upd.name ELSE a.name,
   parentId |-> IF upd.setParent THEN upd.parentId ELSE a.parentId,
   color |-> IF upd.setColor THEN upd.color ELSE a.color,
   featureIds |-> IF upd.setFeatures THEN upd.featureIds ELSE a.featureIds]

\* an updater that merges the update into every area
updateAreaUpdateAll(areas, id, upd) ==
  LET F(a) == MergeUpdate(a, upd)
  IN MapAreas(areas, F)

updateAreaUpdate(areas, id, upd) ==
  LET F(a) == IF a.id = id THEN MergeUpdate(a, upd) ELSE a
  IN MapAreas(areas, F)

\* the duplicate check looking at the target area only
addFeatureToAreaTargetOnly(areas, areaId, featureId) ==
  LET F(a) == IF a.id = areaId /\ featureId \notin Range(a.featureIds)
              THEN [a EXCEPT !.featureIds = Append(@, featureId)]
              ELSE a
  IN MapAreas(areas, F)

\* the append without the duplicate check
addFeatureToAreaUnchecked(areas, areaId, featureId) ==
  LET F(a) == IF a.id = areaId
              THEN [a EXCEPT !.featureIds = Append(@, featureId)]
              ELSE a
  IN MapAreas(areas, F)

addFeatureToAreaUpdate(areas, areaId, featureId) ==
  IF isAlreadyAssigned(areas, featureId)
  THEN areas
  ELSE LET F(a) == IF a.id = areaId
                   THEN [a EXCEPT !.featureIds = Append(@, featureId)]
                   ELSE a
       IN MapAreas(areas, F)

\* the filter applied to every area instead of the target
removeFeatureFromAreaEverywhere(areas, areaId, featureId) ==
  LET NotIt(f) == f # featureId
      F(a) == [a EXCEPT !.featureIds = FilterSeq(@, NotIt)]
  IN MapAreas(areas, F)

removeFeatureFromAreaUpdate(areas, areaId, featureId) ==
  LET NotIt(f) == f # featureId
      F(a) == IF a.id = areaId
              THEN [a EXCEPT !.featureIds = FilterSeq(@, NotIt)]
              ELSE a
  IN MapAreas(areas, F)

\* the filter also dropping an id that occurred earlier in the input
unassignedIdsOnce(areas, featureIds) ==
  LET idx == {k \in 1..Len(featureIds) :
                /\ featureIds[k] \notin assignedIds(areas)
                /\ \A j \in 1..(k - 1) : featureIds[j] # featureIds[k]}
      RECURSIVE Pick(_)
      Pick(k) == IF k > Len(featureIds) THEN <<>>
                 ELSE IF k \in idx THEN <<featureIds[k]>> \o Pick(k + 1)
                      ELSE Pick(k + 1)
  IN Pick(1)

unassignedIds(areas, featureIds) ==
  LET assigned == assignedIds(areas)
      Free(f) == f \notin assigned
  IN FilterSeq(featureIds, Free)

addFeaturesToAreaUpdate(areas, areaId, featureIds) ==
  LET toAdd == unassignedIds(areas, featureIds)
      F(a) == IF a.id = areaId
              THEN [a EXCEPT !.featureIds = @ \o toAdd]
              ELSE a
  IN IF Len(toAdd) = 0 THEN areas ELSE MapAreas(areas, F)

\* setSelectedAreaId((prev) => (prev === id ? null : prev))
selectionAfterRemove(sel, id) == IF sel = id THEN Null ELSE sel

\* ---- area tree (types/area.ts) --------------------------------------------
\* the keys of areaMap in insertion order: each id once, at the place of its
\* first occurrence in the list
RECURSIVE MapKeys(_)
MapKeys(list) ==
  IF list = <<>> THEN <<>>
  ELSE LET before == MapKeys(SubSeq(list, 1, Len(list) - 1))
           id == list[Len(list)].id
       IN IF id \in Range(before) THEN before ELSE Append(before, id)

\* areaMap.get(id): set() replaces the value, the last area with the id stays
MapGet(list, id) ==
  list[CHOOSE i \in 1..Len(list) :
         list[i].id = id /\ \A j \in (i + 1)..Len(list) : list[j].id # id]

\* the result of buildAreaTree as the objects it links: the ids of the roots
\* in order, and for each id of areaMap its area and the ids of its children
\* in order
buildAreaTree(list) ==
  LET keys == MapKeys(list)
      ParentOf(id) == MapGet(list, id).parentId
      IsRoot(id) == ParentOf(id) = Null \/ ParentOf(id) \notin Range(keys)
  IN [roots |-> FilterSeq(keys, IsRoot),
      node |-> [id \in Range(keys) |-> MapGet(list, id)],
      children |-> [id \in Range(keys) |->
                      LET IsChild(k) == ~IsRoot(k) /\ ParentOf(k) = id
                      IN FilterSeq(keys, IsChild)]]

\* ---- feature ids (types/layer.ts) ---------------------------------------
Digits == <<"0", "1", "2", "3", "4", "5", "6", "7", "8", "9">>

IsDigit(c) == \E d \in 1..10 : Digits[d] = c

DigitOf(c) == (CHOOSE d \in 1..10 : Digits[d] = c) - 1

\* a Number holding an integer: nan, or sign and m * 10^e with m not a
\* multiple of 10 (m = 0 only with e = 0): the integers of up to 21 digits
\* and beyond are then values of the model without reaching 2^31
NaN == [nan |-> TRUE, neg |-> FALSE, m |-> 0, e |-> 0]

Num(neg, m, e) == [nan |-> FALSE, neg |-> neg /\ m # 0, m |-> m, e |-> e]

\* Number::toString switches to exponent notation from 10^21 on
ExponentFrom == 21

RECURSIVE ToDigits(_)
ToDigits(n) ==
  IF n < 10 THEN <<Digits[n + 1]>>
  ELSE ToDigits(n \div 10) \o <<Digits[(n % 10) + 1]>>

Zeros(k) == [i \in 1..k |-> "0"]

\* `${featureIndex}`: Number::toString in radix 10, of an integer
NumberToString(x) ==
  LET ds == ToDigits(x.m)
      n  == Len(ds) + x.e
      abs == IF n <= ExponentFrom
             THEN ds \o Zeros(x.e)
             ELSE <<Head(ds)>>
                  \o (IF Len(ds) > 1 THEN <<".">> \o Tail(ds) ELSE <<>>)
                  \o <<"e", "+">> \o ToDigits(n - 1)
  IN IF x.nan THEN <<"N", "a", "N">>
     ELSE IF x.neg THEN <<"-">> \o abs ELSE abs

\* the id written with another separator than the one the parse splits on
generateFeatureIdDash(layerId, featureIndex) ==
  layerId \o <<"-">> \o NumberToString(featureIndex)

generateFeatureId(layerId, featureIndex) ==
  layerId \o <<":">> \o NumberToString(featureIndex)

\* featureId.split(":")
RECURSIVE Split(_)
Split(str) ==
  IF \A i \in 1..Len(str) : str[i] # ":"
  THEN <<str>>
  ELSE LET k == CHOOSE i \in 1..Len(str) :
                  str[i] = ":" /\ \A j \in 1..(i - 1) : str[j] # ":"
       IN <<SubSeq(str, 1, k - 1)>> \o Split(SubSeq(str, k + 1, Len(str)))

RECURSIVE SkipWhile(_, _)
SkipWhile(str, c) ==
  IF str # <<>> /\ Head(str) = c THEN SkipWhile(Tail(str), c) ELSE str

RECURSIVE DigitPrefix(_)
DigitPrefix(str) ==
  IF str # <<>> /\ IsDigit(Head(str))
  THEN <<Head(str)>> \o DigitPrefix(Tail(str))
  ELSE <<>>

RECURSIVE DigitsValue(_)
DigitsValue(ds) ==
  IF ds = <<>> THEN 0
  ELSE 10 * DigitsValue(SubSeq(ds, 1, Len(ds) - 1)) + DigitOf(ds[Len(ds)])

RECURSIVE TrailingZeros(_)
TrailingZeros(ds) ==
  IF ds # <<>> /\ ds[Len(ds)] = "0"
  THEN 1 + TrailingZeros(SubSeq(ds, 1, Len(ds) - 1))
  ELSE 0

\* Number.parseInt(str, 10): leading white space skipped, an optional sign,
\* then the longest run of digits; whatever follows is ignored
parseInt(str) ==
  LET trimmed == SkipWhile(str, " ")
      signed  == trimmed # <<>> /\ Head(trimmed) \in {"-", "+"}
      neg     == trimmed # <<>> /\ Head(trimmed) = "-"
      ds      == DigitPrefix(IF signed THEN Tail(trimmed) ELSE trimmed)
      sig     == SkipWhile(ds, "0")
      z       == TrailingZeros(sig)
  IN IF ds = <<>> THEN NaN
     ELSE IF sig = <<>> THEN Num(neg, 0, 0)
     ELSE Num(neg, DigitsValue(SubSeq(sig, 1, Len(sig) - z)), z)

NullFeatureId == [null |-> TRUE, layerId |-> <<>>, index |-> NaN]

parseFeatureId(featureId) ==
  LET parts == Split(featureId)
      index == IF Len(parts) = 2 THEN parseInt(parts[2]) ELSE NaN
  IN IF Len(parts) # 2 THEN NullFeatureId
     ELSE IF index.nan THEN NullFeatureId
     ELSE [null |-> FALSE, layerId |-> parts[1], index |-> index]

\* the characters the strings handed to parseFeatureId are made of
Chars == {"a", ":", "1", "-", " "}

FeatureIdStrings == SeqsUpTo(Chars, MaxStr)

\* layer ids: strings without a colon
LayerIds == SeqsUpTo({"a"}, MaxLayerId)

\* the non-negative integers m * 10^e the model encodes
Indexes ==
  {Num(FALSE, 0, 0)}
  \cup {Num(FALSE, m, e) : m \in {k \in 1..MaxMantissa : k % 10 # 0},
                           e \in 0..MaxZeros}

\* ---- color palette (lib/color-palette.ts) ---------------------------------
\* A color "#rrggbb" is the triple <<r, g, b>> of the channel values its hex
\* digits encode.  A hue is an integer number of 1/161 degree: every color
\* hslToHex makes at saturation 70 and lightness 55 has max - min = 161, and
\* the hue hexToHue extracts from such a color is a multiple of 60/161 degree.
\* The program computes hues in doubles, which are these values up to a
\* rounding error of about 1e-14 degree: two distances that are equal here
\* can differ there by that much.
HueScale == 161

FullCircle == 360 * HueScale

RESERVED_HUES == <<120, 0>>

reservedBuffer == 30

Abs(x) == IF x < 0 THEN -x ELSE x

Min2(a, b) == IF a <= b THEN a ELSE b

Max3(a, b, c) == IF a >= b /\ a >= c THEN a ELSE IF b >= c THEN b ELSE c

Min3(a, b, c) == IF a <= b /\ a <= c THEN a ELSE IF b <= c THEN b ELSE c

\* Math.min(diff, 360 - diff), in the unit of its arguments
Wrapped(diff, circle) == Min2(diff, circle - diff)

\* the hues, in degrees, for (let h = 0; h < 360; h += 5) keeps
availableHues ==
  LET sampled == [i \in 1..72 |-> 5 * (i - 1)]
      Far(h) == \A k \in 1..Len(RESERVED_HUES) :
                  Wrapped(Abs(h - RESERVED_HUES[k]), 360) >= reservedBuffer
  IN FilterSeq(sampled, Far)

\* hslToHex(h, 70, 55) for the hue hn / hd, 0 <= hn / hd < 360 * HueScale.
\* With s = 0.7 and l = 0.55: c = 0.63, m = 0.235, and a channel is
\* Math.round((n + m) * 255) for n = c, n = 0 and n = x = c * t, where
\* t = 1 - |((h / 60) % 2) - 1| = T / Q below; these are 221, 60 and
\* 60 + floor(160.65 * t + 0.425)
hslToHex(hn, hd) ==
  LET D == HueScale * hd
      Q == 60 * D
      a == hn % (2 * Q)
      T == Q - Abs(a - Q)
      C == 221
      Z == 60
      X == 60 + ((6426 * T + 17 * Q) \div (40 * Q))
  IN IF hn < 60 * D THEN <<C, X, Z>>
     ELSE IF hn < 120 * D THEN <<X, C, Z>>
     ELSE IF hn < 180 * D THEN <<Z, C, X>>
     ELSE IF hn < 240 * D THEN <<Z, X, C>>
     ELSE IF hn < 300 * D THEN <<X, Z, C>>
     ELSE <<C, Z, X>>

\* the hues, in degrees, the palette of count colors is made from
paletteHues(count) ==
  LET step == Len(availableHues) \div count
  IN [i \in 1..count |->
        availableHues[(((i - 1) * step) % Len(availableHues)) + 1]]

generateDistributedPalette(count) ==
  LET hues == paletteHues(count)
  IN [i \in 1..count |-> hslToHex(HueScale * hues[i], 1)]

POLYGON_PALETTE == generateDistributedPalette(12)

\* exact for the colors with max - min = 161 and for the grays
hexToHue(hex) ==
  LET r == hex[1]
      g == hex[2]
      b == hex[3]
      max == Max3(r, g, b)
      min == Min3(r, g, b)
      d == max - min
  IN IF max = min THEN 0
     ELSE IF max = r
          THEN (60 * HueScale * ((g - b) + (IF g < b THEN 6 * d ELSE 0))) \div d
     ELSE IF max = g
          THEN (60 * HueScale * ((b - r) + 2 * d)) \div d
     ELSE (60 * HueScale * ((r - g) + 4 * d)) \div d

hueDistance(h1, h2) == Wrapped(Abs(h1 - h2), FullCircle)

RECURSIVE MinOf(_)
MinOf(seq) ==
  IF Len(seq) = 1 THEN seq[1] ELSE Min2(Head(seq), MinOf(Tail(seq)))

RECURSIVE SumOf(_)
SumOf(seq) == IF seq = <<>> THEN 0 ELSE Head(seq) + SumOf(Tail(seq))

\* the loop over POLYGON_PALETTE from its k-th color on, entered with the
\* best color and distance found so far
RECURSIVE farthestFrom(_, _, _, _, _)
farthestFrom(usedColors, usedHues, k, bestColor, bestMinDistance) ==
  IF k > Len(POLYGON_PALETTE) THEN bestColor
  ELSE LET color == POLYGON_PALETTE[k]
           hue == hexToHue(color)
           minDistance ==
             MinOf([i \in 1..Len(usedHues) |-> hueDistance(hue, usedHues[i])])
       IN IF color \in Range(usedColors)
          THEN farthestFrom(usedColors, usedHues, k + 1, bestColor, bestMinDistance)
          ELSE IF minDistance > bestMinDistance
          THEN farthestFrom(usedColors, usedHues, k + 1, color, minDistance)
          ELSE farthestFrom(usedColors, usedHues, k + 1, bestColor, bestMinDistance)

getNextAvailableColor(usedColors) ==
  IF Len(usedColors) = 0 THEN POLYGON_PALETTE[1]
  ELSE LET usedHues == [i \in 1..Len(usedColors) |-> hexToHue(usedColors[i])]
           bestColor == farthestFrom(usedColors, usedHues, 1, POLYGON_PALETTE[1], 0)
           n == Len(usedHues)
           newHue == (SumOf(usedHues) + 180 * HueScale * n) % (FullCircle * n)
       IN IF bestColor \in Range(usedColors)
          THEN hslToHex(newHue, n)
          ELSE bestColor

\* a darker color of the same hue: each channel lowered by the same amount
Darker(hex, t) == <<hex[1] - t, hex[2] - t, hex[3] - t>>

\* the lists of used colors the allocator is first called with: none, and the
\* palette with its second color replaced by a darker color of the same hue
\* (#ddc23c by #a18600)
FirstUsedLists ==
  {<<>>,
   [i \in 1..Len(POLYGON_PALETTE) |->
      IF i = 2 THEN Darker(POLYGON_PALETTE[2], 60) ELSE POLYGON_PALETTE[i]]}

\* ---- inputs -------------------------------------------------------------
\* the name of the projects in project files, the one newProject gives a
\* project saved as a.json
FileName == <<"a">>

\* featureIds arrays a caller passes to addFeaturesToArea
InputLists == SeqsUpTo(FeatureIds, MaxInput)

\* the names a caller passes to addArea
Names == {"A", "B"}

\* the add and assign operations never read a name: the specifications that
\* are not about names use one
OneName == {"A"}

\* export { POLYGON_PALETTE as AREA_COLORS }
AREA_COLORS == POLYGON_PALETTE

\* Partial<Omit<Area, "id">>, the updates of parentId and of featureIds
Updates ==
  {NoUpdate}
  \cup {[NoUpdate EXCEPT !.setParent = TRUE, !.parentId = p] : p \in ParentIds}
  \cup {[NoUpdate EXCEPT !.setFeatures = TRUE, !.featureIds = s] :
          s \in FileFeatureLists}

\* the updates the specification of addArea and updateArea draws from: none,
\* a name, a color off the palette, the first area as parent, one feature
AreaUpdates ==
  {NoUpdate,
   [NoUpdate EXCEPT !.setColor = TRUE, !.color = Darker(AREA_COLORS[2], 60)],
   [NoUpdate EXCEPT !.setParent = TRUE, !.parentId = 1],
   [NoUpdate EXCEPT !.setFeatures = TRUE, !.featureIds = <<1>>]}
  \cup {[NoUpdate EXCEPT !.setName = TRUE, !.name = n] : n \in Names}

\* the areas arrays, of at most n areas, of the project files JSON.parse can
\* return; the areas have the first color of the palette
FileAreaLists(n) ==
  SeqsUpTo([id : AreaIds, name : OneName, parentId : ParentIds \ {UnknownId},
            color : {AREA_COLORS[1]}, featureIds : FileFeatureLists], n)

\* what opening the chosen file can meet: readFile rejecting, content that is
\* not JSON, a parsed value without an areas array, a parsed value with areas
\* and no name, and a complete project.  No operation modelled reads the name,
\* so the nameless values carry the short areas arrays only
ProjectFiles(n) ==
  {[kind |-> k, name |-> FileName, areas |-> <<>>] :
     k \in {"rejected", "malformed", "noAreas"}}
  \cup {[kind |-> "noName", name |-> <<"undefined">>, areas |-> fa] :
          fa \in FileAreaLists(1)}
  \cup {[kind |-> "valid", name |-> FileName, areas |-> fa] :
          fa \in FileAreaLists(n)}

\* ---- newProject's name ----------------------------------------------------
DotJson == <<".", "j", "s", "o", "n">>

\* filePath.split("/").pop()?.replace(".json", "") || "新規プロジェクト", the
\* default name written "new"; replace takes out the first ".json" alone
fileNameOf(path) ==
  LET slashes == {i \in 1..Len(path) : path[i] = "/"}
      last_ == IF slashes = {} THEN path
               ELSE SubSeq(path, Max(slashes) + 1, Len(path))
      at == {i \in 1..(Len(last_) - Len(DotJson) + 1) :
               SubSeq(last_, i, i + Len(DotJson) - 1) = DotJson}
      base == IF at = {} THEN last_
              ELSE SubSeq(last_, 1, Min(at) - 1)
                   \o SubSeq(last_, Min(at) + Len(DotJson), Len(last_))
  IN IF base = <<>> THEN <<"new">> ELSE base

\* the path the save dialog returns: /d/a.json
OnePath == {<<"/", "d", "/", "a">> \o DotJson}

\* the name a caller passes to newProject
OneGivenName == {<<"T">>}

\* ---- sidebar width (hooks/use-resizable-sidebar.ts) ------------------------
DEFAULT_WIDTH == 320

MIN_WIDTH == 200

MAX_WIDTH == 600

\* the integer a Number of the model holds
RECURSIVE TenTo(_)
TenTo(e) == IF e = 0 THEN 1 ELSE 10 * TenTo(e - 1)

ToInt(x) == (IF x.neg THEN -1 ELSE 1) * x.m * TenTo(x.e)

\* localStorage.getItem: null, or the string stored
NoItem == [has |-> FALSE, str |-> <<>>]

Item(str) == [has |-> TRUE, str |-> str]

\* the initializer of useState: threw is getItem throwing
initialWidth(stored, threw) ==
  LET parsed == parseInt(stored.str)
  IN IF threw \/ ~stored.has \/ stored.str = <<>> THEN DEFAULT_WIDTH
     ELSE IF ~parsed.nan /\ ToInt(parsed) >= MIN_WIDTH /\ ToInt(parsed) <= MAX_WIDTH
          THEN ToInt(parsed)
          ELSE DEFAULT_WIDTH

\* Math.max(MIN_WIDTH, w) left out
clampWidthNoMin(w) == Min2(MAX_WIDTH, w)

\* Math.min(MAX_WIDTH, Math.max(MIN_WIDTH, w))
clampWidth(w) == Min2(MAX_WIDTH, IF w >= MIN_WIDTH THEN w ELSE MIN_WIDTH)

\* what storage can hold at start-up: nothing, widths in and out of range,
\* and strings parseInt reads in part or not at all
StoredValues ==
  {NoItem} \cup {Item(str) : str \in {<<"2", "5", "0">>,
                                   <<"1", "9", "9">>,
                                   <<"2", "0", "0">>,
                                   <<"6", "0", "0">>,
                                   <<"6", "0", "1">>,
                                   <<>>,
                                   <<"a", "b", "c">>,
                                   <<"-", "3", "0", "0">>,
                                   <<"3", "0", "0", "p", "x">>,
                                   <<" ", "4", "5", "0">>,
                                   <<"1", "e", "3">>,
                                   <<"0", "3", "2", "0">>}}

\* e.clientX
DragStep == 150

ClientXs == {DragStep * i : i \in 0..MaxDrag}

\* ---- layer ids (hooks/use-layers.ts) ---------------------------------------
\* replace(/_+/g, "_")
RECURSIVE Squeeze(_)
Squeeze(str) ==
  IF Len(str) < 2 THEN str
  ELSE IF str[1] = "_" /\ str[2] = "_" THEN Squeeze(Tail(str))
       ELSE <<Head(str)>> \o Squeeze(Tail(str))

\* toLowerCase on the letter the names of the model have, every character
\* outside [a-z0-9_-] made "_", the runs of "_" made one, and one "_" taken
\* from the front and one from the end
generateLayerIdFromName(name) ==
  LET Lower(c) == IF c = "A" THEN "a" ELSE c
      IsIdChar(c) == c \in {"a", "_", "-"} \/ IsDigit(c)
      one == Squeeze([i \in 1..Len(name) |->
                IF IsIdChar(Lower(name[i])) THEN Lower(name[i]) ELSE "_"])
      front == IF one # <<>> /\ Head(one) = "_" THEN Tail(one) ELSE one
  IN IF front # <<>> /\ front[Len(front)] = "_"
     THEN SubSeq(front, 1, Len(front) - 1)
     ELSE front

IdsOf(list) == {list[i].id : i \in 1..Len(list)}

\* while (layers.some((l) => l.id === layerId)) { ...; counter++ }, entered
\* with layerId and counter
RECURSIVE whileTaken(_, _, _, _)
whileTaken(list, baseLayerId, layerId, counter) ==
  IF layerId \in IdsOf(list)
  THEN whileTaken(list, baseLayerId,
                  baseLayerId \o <<"_">> \o ToDigits(counter), counter + 1)
  ELSE layerId

\* the layer a load that saw the layers of list appends
newLayer(list, name) ==
  [id |-> whileTaken(list, generateLayerIdFromName(name),
                     generateLayerIdFromName(name), 1),
   name |-> name]

\* what a FileList can be: without a .shp file, or with one that the decoder
\* reads or rejects, of the name a, A_1 or one without a letter or digit of
\* ASCII
LayerFiles ==
  {[shp |-> FALSE, name |-> <<>>, decodes |-> FALSE]}
  \cup {[shp |-> TRUE, name |-> n, decodes |-> d] :
          n \in {<<"a">>, <<"A", "_", "1">>, <<"%">>}, d \in BOOLEAN}

\* a load that appends its layer whether the decoder read the file or not
settledLayersAlways(list, load) ==
  Append(list, newLayer(load.seen, load.name))

\* the layer list after the load has gone on: setLayers((prev) => [...prev,
\* newLayer]) when the decoder resolved, nothing when it threw
settledLayers(list, load) ==
  IF load.decodes
  THEN Append(list, newLayer(load.seen, load.name))
  ELSE list

\* ---- operations -----------------------------------------------------------
Record(c) ==
  /\ last' = IF last = Untraced THEN last
              ELSE [op |-> c.op, id |-> c.id, changed |-> project' # project]
  /\ UNCHANGED <<call, ret, sidebar, layers, layerIsLoading, layerError, loads,
              isLoading, running>>

\* newProject, after the dialog returned filePath and the file was written.
\* The function declares no parameter: a name the caller passes is dropped
NewProject(name, filePath) ==
  /\ ~crashed
  /\ project' = createEmptyProject(fileNameOf(filePath))
  /\ isDirty' = FALSE
  /\ selectedAreaId' = Null
  /\ error' = FALSE
  /\ UNCHANGED <<usedIds, crashed>>
  /\ Record(Call("newProject", Null))

\* openProject, after the dialog returned a path.  area:load-project rejects
\* when readFile or JSON.parse throws and otherwise returns whatever JSON.parse
\* produced; the hook installs that value unexamined.  A value without an
\* areas array makes the next render throw: areaTree and areaColorMap iterate
\* project.areas
OpenProject(file) ==
  /\ ~crashed
  /\ IF file.kind \in {"rejected", "malformed"}
     THEN /\ error' = TRUE
          /\ UNCHANGED <<project, isDirty, selectedAreaId, usedIds, crashed>>
     ELSE /\ error' = FALSE
          /\ project' = [open |-> TRUE, name |-> file.name, areas |-> file.areas]
          /\ isDirty' = FALSE
          /\ selectedAreaId' = Null
          /\ usedIds' = usedIds \cup {file.areas[i].id : i \in 1..Len(file.areas)}
          /\ crashed' = (file.kind = "noAreas")
  /\ Record(Call("openProject", Null))

\* saveProject, after the file was written
SaveProject ==
  /\ ~crashed
  /\ project.open
  /\ isDirty' = FALSE
  /\ error' = FALSE
  /\ UNCHANGED <<project, selectedAreaId, usedIds, crashed>>
  /\ Record(Call("saveProject", Null))

AddArea(name, parentId) ==
  /\ ~crashed
  /\ AreaIds \ usedIds # {}
  /\ IF ~project.open
     THEN UNCHANGED <<project, isDirty, usedIds>>
     ELSE /\ project' = [project EXCEPT !.areas =
                  addAreaUpdate(@, [id |-> generateAreaId(usedIds),
                                    name |-> name,
                                    parentId |-> parentId,
                                    color |-> AREA_COLORS[(Len(project.areas)
                                                % Len(AREA_COLORS)) + 1],
                                    featureIds |-> <<>>])]
          /\ isDirty' = TRUE
          /\ usedIds' = usedIds \cup {generateAreaId(usedIds)}
  /\ UNCHANGED <<selectedAreaId, crashed, error>>
  /\ Record(Call("addArea", parentId))

RemoveArea(id) ==
  /\ ~crashed
  /\ LET r == collectDescendants(project.areas, id, 1)
     IN IF project.open /\ r.overflow
        THEN \* RangeError out of the updater: the render fails
             /\ crashed' = TRUE
             /\ UNCHANGED <<project, isDirty, selectedAreaId>>
        ELSE /\ project' = IF project.open
                           THEN [project EXCEPT !.areas = removeAreaUpdate(@, r.ids)]
                           ELSE project
             /\ isDirty' = TRUE
             /\ selectedAreaId' = selectionAfterRemove(selectedAreaId, id)
             /\ UNCHANGED crashed
  /\ UNCHANGED <<usedIds, error>>
  /\ Record(Call("removeArea", id))

UpdateArea(id, upd) ==
  /\ ~crashed
  /\ project' = IF project.open
                THEN [project EXCEPT !.areas = updateAreaUpdate(@, id, upd)]
                ELSE project
  /\ isDirty' = TRUE
  /\ UNCHANGED <<selectedAreaId, usedIds, crashed, error>>
  /\ Record(Call("updateArea", id))

SelectArea(id) ==
  /\ ~crashed
  /\ selectedAreaId' = id
  /\ UNCHANGED <<project, isDirty, usedIds, crashed, error>>
  /\ Record(Call("selectArea", id))

AddFeatureToArea(areaId, featureId) ==
  /\ ~crashed
  /\ project' = IF project.open
                THEN [project EXCEPT !.areas = addFeatureToAreaUpdate(@, areaId, featureId)]
                ELSE project
  /\ isDirty' = TRUE
  /\ UNCHANGED <<selectedAreaId, usedIds, crashed, error>>
  /\ Record(Call("addFeatureToArea", areaId))

RemoveFeatureFromArea(areaId, featureId) ==
  /\ ~crashed
  /\ project' = IF project.open
                THEN [project EXCEPT !.areas = removeFeatureFromAreaUpdate(@, areaId, featureId)]
                ELSE project
  /\ isDirty' = TRUE
  /\ UNCHANGED <<selectedAreaId, usedIds, crashed, error>>
  /\ Record(Call("removeFeatureFromArea", areaId))

AddFeaturesToArea(areaId, featureIds) ==
  /\ ~crashed
  /\ project' = IF project.open
                THEN [project EXCEPT !.areas = addFeaturesToAreaUpdate(@, areaId, featureIds)]
                ELSE project
  /\ isDirty' = TRUE
  /\ UNCHANGED <<selectedAreaId, usedIds, crashed, error>>
  /\ Record(Call("addFeaturesToArea", areaId))

\* ---- specifications -------------------------------------------------------
\* every operation of the engine; the properties checked under it compare the
\* two states of a step and need no record of the call
Next ==
  \/ \E n \in OneGivenName, path \in OnePath : NewProject(n, path)
  \/ \E file \in ProjectFiles(MaxFileAreas) : OpenProject(file)
  \/ SaveProject
  \/ \E n \in OneName, p \in ParentIds : AddArea(n, p)
  \/ \E id \in CallIds : RemoveArea(id)
  \/ \E id \in CallIds, upd \in Updates : UpdateArea(id, upd)
  \/ \E id \in CallIds \cup {Null} : SelectArea(id)
  \/ \E id \in CallIds, f \in FileFeatureIds : AddFeatureToArea(id, f)
  \/ \E id \in CallIds, f \in FileFeatureIds : RemoveFeatureFromArea(id, f)
  \/ \E id \in CallIds, fs \in FileFeatureLists : AddFeaturesToArea(id, fs)

Spec == InitUntraced /\ [][Next]_vars

\* newProject called once, when no project is open
CreateProject ==
  /\ ~project.open
  /\ \E n \in OneGivenName, path \in OnePath : NewProject(n, path)

\* the add operations never read parentId: the specifications made for them
\* create root areas only
RootOnly == {Null}

\* one new project and the add operations only
NextAdd ==
  \/ CreateProject
  \/ \E n \in OneName, p \in RootOnly : AddArea(n, p)
  \/ \E id \in CallIds, f \in FeatureIds : AddFeatureToArea(id, f)
  \/ \E id \in CallIds, fs \in InputLists : AddFeaturesToArea(id, fs)

SpecAdd == Init /\ [][NextAdd]_vars

\* one new project and the operations that assign and unassign features
NextAssign ==
  \/ CreateProject
  \/ \E n \in OneName, p \in RootOnly : AddArea(n, p)
  \/ \E id \in CallIds, f \in FeatureIds : AddFeatureToArea(id, f)
  \/ \E id \in CallIds, f \in FeatureIds : RemoveFeatureFromArea(id, f)
  \/ \E id \in CallIds, fs \in InputLists : AddFeaturesToArea(id, fs)

SpecAssign == Init /\ [][NextAssign]_vars

\* one new project and batch assignment alone
NextBatch ==
  \/ CreateProject
  \/ \E n \in OneName, p \in RootOnly : AddArea(n, p)
  \/ \E id \in CallIds, fs \in InputLists : AddFeaturesToArea(id, fs)

SpecBatch == Init /\ [][NextBatch]_vars

\* one new project, addArea and updateArea with every name, parent and update
NextArea ==
  \/ CreateProject
  \/ \E n \in Names, p \in ParentIds : AddArea(n, p)
  \/ \E id \in CallIds, upd \in AreaUpdates : UpdateArea(id, upd)

SpecArea == InitUntraced /\ [][NextArea]_vars

\* one new project, root areas of one name, and updateArea with every update
NextUpdate ==
  \/ CreateProject
  \/ \E n \in OneName, p \in RootOnly : AddArea(n, p)
  \/ \E id \in CallIds, upd \in AreaUpdates : UpdateArea(id, upd)

SpecUpdate == InitUntraced /\ [][NextUpdate]_vars

\* one new project, addFeatureToArea, the update that hands the first feature
\* to an area, whoever holds it, and removeFeatureFromArea
NextUnassign ==
  \/ CreateProject
  \/ \E n \in OneName, p \in RootOnly : AddArea(n, p)
  \/ \E id \in CallIds, f \in FeatureIds : AddFeatureToArea(id, f)
  \/ \E id \in CallIds : UpdateArea(id, [NoUpdate EXCEPT !.setFeatures = TRUE,
                                                !.featureIds = <<1>>])
  \/ \E id \in CallIds, f \in FeatureIds : RemoveFeatureFromArea(id, f)

SpecUnassign == Init /\ [][NextUnassign]_vars

\* one new project and the operations that add and remove areas and features
NextAddRemove ==
  \/ CreateProject
  \/ \E n \in OneName, p \in ParentIds : AddArea(n, p)
  \/ \E id \in CallIds : RemoveArea(id)
  \/ \E id \in CallIds, f \in FeatureIds : AddFeatureToArea(id, f)
  \/ \E id \in CallIds, f \in FeatureIds : RemoveFeatureFromArea(id, f)
  \/ \E id \in CallIds, fs \in FileFeatureLists : AddFeaturesToArea(id, fs)

SpecAddRemove == InitUntraced /\ [][NextAddRemove]_vars

\* ---- useAreas at its awaits -------------------------------------------------
RemoveAt(seq, k) == SubSeq(seq, 1, k - 1) \o SubSeq(seq, k + 1, Len(seq))

AsyncIdle ==
  UNCHANGED <<last, call, ret, sidebar, layers, layerIsLoading, layerError,
              loads>>

\* a call that has begun: setIsLoading(true); setError(null), then the await
\* of its first collaborator
Begins(op, stage) ==
  /\ ~crashed
  /\ isLoading' = TRUE
  /\ error' = FALSE
  /\ running' = Append(running, [op |-> op, stage |-> stage,
                                 project |-> project])
  /\ UNCHANGED <<project, isDirty, selectedAreaId, usedIds, crashed>>
  /\ AsyncIdle

\* openProject up to the await of openProjectDialog
OpenProjectBegins == Begins("openProject", "dialog")

\* saveProject up to the await of electronAPI.saveProject
SaveProjectBegins == project.open /\ Begins("saveProject", "file")

\* saveProjectAs up to the await of newProjectDialog
SaveProjectAsBegins == project.open /\ Begins("saveProjectAs", "dialog")

\* isLoading with the dialog never answered as cancelled
loadingAfterDialogKept(loading, chosen) == loading

\* isLoading after the dialog: if (!filePath) { setIsLoading(false); return }
loadingAfterDialog(loading, chosen) == IF chosen THEN loading ELSE FALSE

\* the dialog of the k-th call returns a path, or null when the user cancels
DialogReturns(k, chosen) ==
  /\ k \in 1..Len(running)
  /\ running[k].stage = "dialog"
  /\ isLoading' = loadingAfterDialog(isLoading, chosen)
  /\ running' = IF chosen
                THEN [running EXCEPT ![k].stage = "file"]
                ELSE RemoveAt(running, k)
  /\ UNCHANGED <<project, isDirty, selectedAreaId, usedIds, crashed, error>>
  /\ AsyncIdle

\* loadProject of the k-th call, an openProject, resolves with file or rejects
OpenSettles(k, file) ==
  /\ k \in 1..Len(running)
  /\ running[k].op = "openProject"
  /\ running[k].stage = "file"
  /\ IF file.kind \in {"rejected", "malformed"}
     THEN /\ error' = TRUE
          /\ UNCHANGED <<project, isDirty, selectedAreaId, usedIds, crashed>>
     ELSE /\ project' = [open |-> TRUE, name |-> file.name, areas |-> file.areas]
          /\ isDirty' = FALSE
          /\ selectedAreaId' = Null
          /\ usedIds' = usedIds \cup {file.areas[i].id : i \in 1..Len(file.areas)}
          /\ crashed' = (crashed \/ file.kind = "noAreas")
          /\ UNCHANGED error
  /\ isLoading' = FALSE
  /\ running' = RemoveAt(running, k)
  /\ AsyncIdle

\* electronAPI.saveProject of the k-th call, a saveProject or saveProjectAs,
\* resolves (written) or rejects: setProject(updatedProject) with the project
\* of the closure, setIsDirty(false)
SaveSettles(k, written) ==
  /\ k \in 1..Len(running)
  /\ running[k].op \in {"saveProject", "saveProjectAs"}
  /\ running[k].stage = "file"
  /\ IF written
     THEN /\ project' = running[k].project
          /\ isDirty' = FALSE
          /\ UNCHANGED error
     ELSE /\ error' = TRUE
          /\ UNCHANGED <<project, isDirty>>
  /\ isLoading' = FALSE
  /\ running' = RemoveAt(running, k)
  /\ UNCHANGED <<selectedAreaId, usedIds, crashed>>
  /\ AsyncIdle

\* ---- useLayers --------------------------------------------------------------
LayersIdle ==
  UNCHANGED <<project, isDirty, selectedAreaId, usedIds, crashed, error, last,
              call, ret, sidebar, isLoading, running>>

\* addLayerFromFiles up to its await.  Without a .shp file it throws inside
\* the try block and has run its catch and finally before it returns.  The
\* callback is made anew whenever layers.length changes, as it does with
\* every layer added or removed, so the layers it closes over are those of
\* the moment of the call
AddLayerFromFiles(files) ==
  /\ Len(layers) + Len(loads) < MaxLayers
  /\ Len(loads) < MaxLoads
  /\ IF files.shp
     THEN /\ layerIsLoading' = TRUE
          /\ layerError' = FALSE
          /\ loads' = Append(loads, [name |-> files.name, seen |-> layers,
                                     decodes |-> files.decodes])
     ELSE /\ layerIsLoading' = FALSE
          /\ layerError' = TRUE
          /\ UNCHANGED loads
  /\ UNCHANGED layers
  /\ LayersIdle

\* the k-th call under way goes on after its await: the decoder has resolved
\* or rejected
LoadSettles(k) ==
  /\ k \in 1..Len(loads)
  /\ layers' = settledLayers(layers, loads[k])
  /\ layerError' = (layerError \/ ~loads[k].decodes)
  /\ layerIsLoading' = FALSE
  /\ loads' = RemoveAt(loads, k)
  /\ LayersIdle

RemoveLayer(id) ==
  /\ layers' = LET Keep(l) == l.id # id IN FilterSeq(layers, Keep)
  /\ UNCHANGED <<layerIsLoading, layerError, loads>>
  /\ LayersIdle

\* the ids a caller passes to removeLayer: those of the layers and one that
\* no layer has
RemovableIds == IdsOf(layers) \cup {<<"?">>}

\* the calls of addLayerFromFiles one after the other, removeLayer at any time
NextLayersSerial ==
  \/ \E files \in LayerFiles : loads = <<>> /\ AddLayerFromFiles(files)
  \/ \E k \in 1..MaxLoads : LoadSettles(k)
  \/ \E id \in RemovableIds : RemoveLayer(id)

SpecLayersSerial == InitUntraced /\ [][NextLayersSerial]_vars

\* the calls overlapping as the caller likes
NextLayers ==
  \/ \E files \in LayerFiles : AddLayerFromFiles(files)
  \/ \E k \in 1..MaxLoads : LoadSettles(k)
  \/ \E id \in RemovableIds : RemoveLayer(id)

SpecLayers == InitUntraced /\ [][NextLayers]_vars

\* ---- one load or open at a time ---------------------------------------------
LoadSettlesSome == \E k \in 1..MaxLoads : LoadSettles(k)

DialogReturnsSome == \E k \in 1..MaxLoads, chosen \in BOOLEAN : DialogReturns(k, chosen)

\* the file read is one of the project files without areas, one of every kind
OpenSettlesSome ==
  \E k \in 1..MaxLoads, file \in {f \in ProjectFiles(1) : f.areas = <<>>} :
    OpenSettles(k, file)

NextLoad ==
  \/ \E files \in LayerFiles : loads = <<>> /\ AddLayerFromFiles(files)
  \/ LoadSettlesSome
  \/ running = <<>> /\ OpenProjectBegins
  \/ DialogReturnsSome
  \/ OpenSettlesSome

\* one call of each hook at a time; the decoder, the dialog and the file read
\* each resolve or reject in the end
SpecLoadFair ==
  /\ InitUntraced
  /\ [][NextLoad]_vars
  /\ WF_vars(LoadSettlesSome)
  /\ WF_vars(DialogReturnsSome)
  /\ WF_vars(OpenSettlesSome)

\* ---- one save at a time, the areas changing meanwhile ------------------------
NextSave ==
  \/ CreateProject
  \/ \E n \in OneName : AddArea(n, Null)
  \/ \E id \in CallIds : RemoveArea(id)
  \/ \E id \in CallIds, f \in FileFeatureIds : AddFeatureToArea(id, f)
  \/ running = <<>> /\ SaveProjectBegins
  \/ running = <<>> /\ SaveProjectAsBegins
  \/ DialogReturnsSome
  \/ \E k \in 1..MaxLoads, written \in BOOLEAN : SaveSettles(k, written)

SpecSave == InitUntraced /\ [][NextSave]_vars

\* ---- the sidebar's events ---------------------------------------------------
SidebarIdle ==
  UNCHANGED <<project, isDirty, selectedAreaId, usedIds, crashed, error, last,
              call, ret, layers, layerIsLoading, layerError, loads,
              isLoading, running>>

handleMouseDown(clientX) ==
  /\ sidebar' = [sidebar EXCEPT !.isResizing = TRUE,
                                !.startX = clientX,
                                !.startWidth = sidebar.width]
  /\ SidebarIdle

\* the listeners are on the document while isResizing only
handleMouseMove(clientX) ==
  /\ sidebar.isResizing
  /\ sidebar' = [sidebar EXCEPT !.width =
                    clampWidth(sidebar.startWidth + (clientX - sidebar.startX))]
  /\ SidebarIdle

\* threw is setItem throwing
handleMouseUp(threw) ==
  /\ sidebar.isResizing
  /\ sidebar' = [sidebar EXCEPT !.isResizing = FALSE,
                                !.stored = IF threw THEN @
                                           ELSE Item(ToDigits(sidebar.width))]
  /\ SidebarIdle

\* the hook mounted over whatever storage holds
InitSidebar ==
  /\ InitProject
  /\ last = Untraced
  /\ call = NoCall
  /\ ret = NotReturned
  /\ InitLayers
  /\ \E stored \in StoredValues, threw \in BOOLEAN :
       sidebar = [width |-> initialWidth(stored, threw), isResizing |-> FALSE,
                  startX |-> 0, startWidth |-> 0, stored |-> stored]

NextSidebar ==
  \/ \E x \in ClientXs : handleMouseDown(x)
  \/ \E x \in ClientXs : handleMouseMove(x)
  \/ \E threw \in BOOLEAN : handleMouseUp(threw)

SpecSidebar == InitSidebar /\ [][NextSidebar]_vars


\* ---- the pure functions, called on their own -----------------------------
HookIdle ==
  UNCHANGED <<project, isDirty, selectedAreaId, usedIds, crashed, error, last,
              sidebar, layers, layerIsLoading, layerError, loads,
              isLoading, running>>

ParseFeatureId ==
  /\ call.fn = "parseFeatureId"
  /\ ~ret.done
  /\ ret' = Returned(parseFeatureId(call.arg))
  /\ UNCHANGED call
  /\ HookIdle

\* parseFeatureId(generateFeatureId(layerId, index))
ParseGeneratedFeatureId ==
  /\ call.fn = "generateFeatureId"
  /\ ~ret.done
  /\ ret' = Returned(parseFeatureId(
                       generateFeatureId(call.arg.layerId, call.arg.index)))
  /\ UNCHANGED call
  /\ HookIdle

InitFeatureId ==
  /\ InitHook
  /\ ret = NotReturned
  /\ call \in {[fn |-> "parseFeatureId", arg |-> str] : str \in FeatureIdStrings}
         \cup {[fn |-> "generateFeatureId",
                arg |-> [layerId |-> l, index |-> i]] :
                 l \in LayerIds, i \in Indexes}

NextFeatureId == ParseFeatureId \/ ParseGeneratedFeatureId

SpecFeatureId == InitFeatureId /\ [][NextFeatureId]_vars

GetNextAvailableColor ==
  /\ call.fn = "getNextAvailableColor"
  /\ ~ret.done
  /\ ret' = Returned(getNextAvailableColor(call.arg))
  /\ UNCHANGED call
  /\ HookIdle

\* the caller gives the color to a new item and asks for the next one, the
\* list of used colors now holding that color too
UseColor ==
  /\ call.fn = "getNextAvailableColor"
  /\ ret.done
  /\ Len(call.arg) < MaxUsed
  /\ call' = [call EXCEPT !.arg = Append(@, ret.val)]
  /\ ret' = NotReturned
  /\ HookIdle

GenerateDistributedPalette ==
  /\ call.fn = "generateDistributedPalette"
  /\ ~ret.done
  /\ ret' = Returned(generateDistributedPalette(call.arg))
  /\ UNCHANGED call
  /\ HookIdle

InitColor ==
  /\ InitHook
  /\ ret = NotReturned
  /\ call \in {[fn |-> "getNextAvailableColor", arg |-> used] :
                 used \in FirstUsedLists}
         \cup {[fn |-> "generateDistributedPalette", arg |-> count] :
                 count \in 1..MaxCount}

NextColor == GetNextAvailableColor \/ UseColor \/ GenerateDistributedPalette

SpecColor == InitColor /\ [][NextColor]_vars

\* ---- vocabulary of the properties ----------------------------------------
areas == project.areas

Indices == 1..Len(areas)

\* the areas whose featureIds hold f
Holders(list, f) ==
  {i \in 1..Len(list) : \E k \in 1..Len(list[i].featureIds) : list[i].featureIds[k] = f}

AssignedSomewhere(list, f) == Holders(list, f) # {}

AllFeatureIds == FeatureIds \cup FileFeatureIds

HasArea(list, id) == \E i \in 1..Len(list) : list[i].id = id

NoRepeat(s) == \A j, k \in 1..Len(s) : s[j] = s[k] => j = k

\* id together with every id reachable from it through parentId
RECURSIVE Reach(_, _)
Reach(list, S) ==
  LET T == S \cup {list[i].id : i \in {k \in 1..Len(list) : list[k].parentId \in S}}
  IN IF T = S THEN S ELSE Reach(list, T)

Subtree(list, id) == Reach(list, {id})

RECURSIVE Without(_, _)
Without(list, S) ==
  IF list = <<>> THEN <<>>
  ELSE IF Head(list).id \in S THEN Without(Tail(list), S)
       ELSE <<Head(list)>> \o Without(Tail(list), S)

RECURSIVE NotYetAssigned(_, _)
NotYetAssigned(list, ids) ==
  IF ids = <<>> THEN <<>>
  ELSE IF AssignedSomewhere(list, Head(ids)) THEN NotYetAssigned(list, Tail(ids))
       ELSE <<Head(ids)>> \o NotYetAssigned(list, Tail(ids))

\* ---- C1 -------------------------------------------------------------------
\* C1: from a new project, under any sequence of addArea, addFeatureToArea and
\* addFeaturesToArea calls, no feature id is in the featureIds of two areas.
C1_MutualExclusivity ==
  \A i, j \in Indices :
    i # j => Range(areas[i].featureIds) \cap Range(areas[j].featureIds) = {}

\* a batch add has put ids into an area while another area holds ids too, and
\* no id is left unassigned
C1_Witness ==
  /\ last.op = "addFeaturesToArea"
  /\ last.changed
  /\ \E i, j \in Indices :
       /\ areas[i].id = last.id
       /\ i # j
       /\ areas[j].featureIds # <<>>
  /\ \A f \in FeatureIds : AssignedSomewhere(areas, f)

\* ---- C2 -------------------------------------------------------------------
\* C2: in every state reachable through any operation of the engine, updateArea
\* and openProject included, a feature id is in at most one area's featureIds.
C2_ExclusiveOnEveryPath ==
  \A f \in AllFeatureIds : Cardinality(Holders(areas, f)) <= 1

\* ---- C3 -------------------------------------------------------------------
\* C3: removeArea(id) for an id that exists removes exactly that area and its
\* transitive descendants and keeps every other area, unchanged and in order.
C3_RemoveAreaCascade ==
  [][\A id \in CallIds :
       (RemoveArea(id) /\ project.open /\ HasArea(areas, id))
         => project'.areas = Without(areas, Subtree(areas, id))]_vars

\* ---- C4 -------------------------------------------------------------------
\* C4: the cascading delete of removeArea terminates for every area list, also
\* one whose parentId references form a cycle: no call runs out of stack.
C4_RemoveAreaTerminates ==
  [][\A id \in CallIds : RemoveArea(id) => ~crashed']_vars

\* ---- C5 -------------------------------------------------------------------
\* C5: after removeArea(id) the selection is none if the selected area was id
\* or a descendant removed with it, and is unchanged otherwise.
C5_SelectionAfterRemove ==
  [][\A id \in CallIds :
       (RemoveArea(id) /\ ~crashed')
         => selectedAreaId' = IF selectedAreaId \in Subtree(areas, id)
                              THEN Null
                              ELSE selectedAreaId]_vars

\* ---- C6 -------------------------------------------------------------------
\* C6: addFeatureToArea with a feature id that some area already holds leaves
\* the area list equal to what it was.
C6_AssignedAddKeepsAreas ==
  [][last'.op = "addFeatureToArea"
       => \A f \in AllFeatureIds :
            (AddFeatureToArea(last'.id, f) /\ AssignedSomewhere(areas, f))
              => project'.areas = areas]_vars

\* the id was offered to an existing area, which holds nothing, and was
\* refused because another area holds it
C6_Witness ==
  /\ last.op = "addFeatureToArea"
  /\ ~last.changed
  /\ \E i, j \in Indices :
       /\ areas[i].id = last.id
       /\ areas[i].featureIds = <<>>
       /\ areas[j].featureIds # <<>>

\* ---- C7 -------------------------------------------------------------------
\* C7: an add that changes nothing (addFeatureToArea with an assigned id,
\* addFeaturesToArea with only assigned ids or none) leaves the dirty flag as
\* it was.
C7_NoopAddKeepsDirty ==
  [][/\ \A id \in CallIds, f \in AllFeatureIds :
          (AddFeatureToArea(id, f) /\ AssignedSomewhere(areas, f))
            => isDirty' = isDirty
     /\ \A id \in CallIds, fs \in InputLists :
          (/\ AddFeaturesToArea(id, fs)
           /\ \A k \in 1..Len(fs) : AssignedSomewhere(areas, fs[k]))
            => isDirty' = isDirty]_vars

\* ---- C8 -------------------------------------------------------------------
\* C8: addFeaturesToArea(areaId, ids) appends to the target area the elements
\* of ids that no area held, in input order and with repetitions kept, and
\* changes the featureIds of no other area.  Stated of the project the call
\* leaves behind, for every call that can be made in a reachable state.
C8_BatchAppendsUnassigned ==
  project.open =>
    \A fs \in InputLists :
      LET appended == NotYetAssigned(areas, fs)
      IN \A id \in CallIds :
           LET after == addFeaturesToAreaUpdate(areas, id, fs)
           IN /\ Len(after) = Len(areas)
              /\ \A i \in Indices :
                   after[i].featureIds =
                     IF areas[i].id = id
                     THEN areas[i].featureIds \o appended
                     ELSE areas[i].featureIds

\* a batch changed its target into an area that holds one id twice and
\* nothing else: the batch named that id twice
C8_Witness ==
  /\ last.op = "addFeaturesToArea"
  /\ last.changed
  /\ \E i \in Indices :
       /\ areas[i].id = last.id
       /\ Len(areas[i].featureIds) = 2
       /\ areas[i].featureIds[1] = areas[i].featureIds[2]
  /\ \E j \in Indices : areas[j].id # last.id /\ areas[j].featureIds # <<>>

\* ---- C9 -------------------------------------------------------------------
\* C9 as stated: in every state reachable through addFeatureToArea,
\* addFeaturesToArea and removeFeatureFromArea no area's featureIds holds an
\* id twice.
C9_NoRepeatInArea ==
  \A i \in Indices : NoRepeat(areas[i].featureIds)

\* C9 as amended: a call of addFeatureToArea, of removeFeatureFromArea, or of
\* addFeaturesToArea with an input list that repeats no id, made when no
\* area's featureIds holds an id twice, leaves it so.
C9_NoRepeatUnlessInputRepeats ==
  [][((\A i \in Indices : NoRepeat(areas[i].featureIds))
      /\ \/ last'.op \in {"addFeatureToArea", "removeFeatureFromArea"}
         \/ /\ last'.op = "addFeaturesToArea"
            /\ \E fs \in InputLists :
                 NoRepeat(fs) /\ AddFeaturesToArea(last'.id, fs))
       => \A i \in 1..Len(project'.areas) : NoRepeat(project'.areas[i].featureIds)]_vars

\* addFeatureToArea was refused by an area that is the only one holding
\* anything and holds a single id: it was offered the id it holds
C9_Witness ==
  /\ last.op = "addFeatureToArea"
  /\ ~last.changed
  /\ \E i \in Indices :
       /\ areas[i].id = last.id
       /\ Len(areas[i].featureIds) = 1
       /\ \A j \in Indices : j # i => areas[j].featureIds = <<>>

\* ---- C10 ------------------------------------------------------------------
\* C10: removeArea(id) with an id no area of the project has changes neither
\* the area list nor the selection nor the dirty flag.
C10_RemoveUnknownIsNoop ==
  [][\A id \in CallIds :
       (RemoveArea(id) /\ project.open /\ ~HasArea(areas, id))
         => /\ project'.areas = areas
            /\ selectedAreaId' = selectedAreaId
            /\ isDirty' = isDirty]_vars

\* ---- C11 ------------------------------------------------------------------
\* C11: when openProject meets a file collaborator that rejects, content that
\* is not JSON, or a parsed value lacking name or areas, it sets the error
\* message, leaves the project, the dirty flag and the selection as they were,
\* and nothing throws.
C11_FailedOpenKeepsState ==
  [][\A file \in ProjectFiles(MaxFileAreas) :
       (OpenProject(file) /\ file.kind # "valid")
         => /\ error'
            /\ project' = project
            /\ isDirty' = isDirty
            /\ selectedAreaId' = selectedAreaId
            /\ ~crashed']_vars

\* ---- C12 ------------------------------------------------------------------
\* C12 as stated: for every colon-free layerId and every non-negative integer
\* i, parseFeatureId(generateFeatureId(layerId, i)) is not null and gives back
\* that layerId and that i.
C12_RoundTrip ==
  (call.fn = "generateFeatureId" /\ ret.done)
    => /\ ~ret.val.null
       /\ ret.val.layerId = call.arg.layerId
       /\ ret.val.index = call.arg.index

\* the integers written without an exponent: those below 10^21
BelowExponent(x) == Len(ToDigits(x.m)) + x.e <= ExponentFrom

\* C12 as amended: the same for every non-negative integer i below 10^21.
C12_RoundTripBelowExponent ==
  (call.fn = "generateFeatureId" /\ ret.done /\ BelowExponent(call.arg.index))
    => /\ ~ret.val.null
       /\ ret.val.layerId = call.arg.layerId
       /\ ret.val.index = call.arg.index

\* the round trip of the largest index written without an exponent came back
C12_Witness ==
  /\ call.fn = "generateFeatureId"
  /\ ret.done
  /\ call.arg.layerId # <<>>
  /\ call.arg.index.m # 0
  /\ Len(ToDigits(call.arg.index.m)) + call.arg.index.e = ExponentFrom
  /\ ~ret.val.null

\* ---- C13 ------------------------------------------------------------------
\* a string of digits, at least one
IsNonNegativeInteger(str) ==
  str # <<>> /\ \A i \in 1..Len(str) : IsDigit(str[i])

IsWellFormedFeatureId(str) ==
  LET colons == {i \in 1..Len(str) : str[i] = ":"}
  IN /\ Cardinality(colons) = 1
     /\ \A k \in colons : IsNonNegativeInteger(SubSeq(str, k + 1, Len(str)))

\* C13: parseFeatureId(s) is null for every string s that is not exactly two
\* colon-separated parts of which the second is a non-negative integer.
C13_MalformedGivesNull ==
  (call.fn = "parseFeatureId" /\ ret.done /\ ~IsWellFormedFeatureId(call.arg))
    => ret.val.null

\* ---- C14 ------------------------------------------------------------------
\* the ids met by a depth-first walk from the given nodes of a tree
RECURSIVE WalkFrom(_, _)
WalkFrom(tree, ids) ==
  IF ids = <<>> THEN <<>>
  ELSE <<Head(ids)>> \o WalkFrom(tree, tree.children[Head(ids)])
                     \o WalkFrom(tree, Tail(ids))

Walk(tree) == WalkFrom(tree, tree.roots)

Occurrences(seq, x) == Cardinality({k \in 1..Len(seq) : seq[k] = x})

\* C14: a depth-first walk of buildAreaTree(list) meets every area of the list
\* exactly once, and every area whose parentId matches no id of the list is a
\* root.  Stated of the area tree of every project the engine can hold.
C14_TreeKeepsEveryArea ==
  (project.open /\ ~crashed) =>
    LET tree == buildAreaTree(areas)
        walk == Walk(tree)
    IN /\ Len(walk) = Len(areas)
       /\ \A i \in Indices : Occurrences(walk, areas[i].id) = 1
       /\ \A i \in Indices :
            (\A j \in Indices : areas[j].id # areas[i].parentId)
              => areas[i].id \in Range(tree.roots)

\* ---- C15 ------------------------------------------------------------------
IsColor(v) == Len(v) = 3 /\ \A k \in 1..3 : v[k] \in 0..255

PaletteColors == Range(POLYGON_PALETTE)

\* C15: getNextAvailableColor(used) is never a color of used: while a palette
\* color is not in used it is a palette color outside used, and once every
\* palette color is in used it is a valid color that is not in used either.
C15_NeverReturnsUsed ==
  (call.fn = "getNextAvailableColor" /\ ret.done)
    => /\ IsColor(ret.val)
       /\ ret.val \notin Range(call.arg)
       /\ (PaletteColors \ Range(call.arg) # {}) => ret.val \in PaletteColors

\* ---- C16 ------------------------------------------------------------------
\* the least of the distances from the hue of a color to the hues of used
MinHueDistance(color, used) ==
  CHOOSE m \in {hueDistance(hexToHue(color), hexToHue(used[i])) : i \in 1..Len(used)} :
    \A i \in 1..Len(used) : m <= hueDistance(hexToHue(color), hexToHue(used[i]))

\* C16: for no used color the result is the first palette color; for used
\* colors that leave a palette color unused it is the unused palette color
\* whose least hue distance to the used colors is largest, the earliest in
\* palette order of those that tie.
C16_FarthestUnusedFirst ==
  (call.fn = "getNextAvailableColor" /\ ret.done)
    => LET used == call.arg
           unused == {k \in 1..Len(POLYGON_PALETTE) :
                        POLYGON_PALETTE[k] \notin Range(used)}
       IN /\ used = <<>> => ret.val = POLYGON_PALETTE[1]
          /\ (used # <<>> /\ unused # {})
               => \E k \in unused :
                    /\ ret.val = POLYGON_PALETTE[k]
                    /\ \A j \in unused :
                         /\ MinHueDistance(POLYGON_PALETTE[j], used)
                              <= MinHueDistance(POLYGON_PALETTE[k], used)
                         /\ MinHueDistance(POLYGON_PALETTE[j], used)
                              = MinHueDistance(POLYGON_PALETTE[k], used)
                            => k <= j

\* ---- C17 ------------------------------------------------------------------
\* the colors of the areas of a list, in the order of the list
ColorsOf(list) == [i \in 1..Len(list) |-> list[i].color]

\* C17: the area addArea appends gets the color getNextAvailableColor returns
\* for the colors of the areas that exist: the first palette color when there
\* is no area, and a color no existing area has while a palette color is
\* unused.
C17_AddAreaUsesAllocator ==
  [][\A n \in OneName, p \in ParentIds :
       (AddArea(n, p) /\ project.open)
         => LET used == ColorsOf(project.areas)
                newArea == project'.areas[Len(project'.areas)]
            IN /\ newArea.color = getNextAvailableColor(used)
               /\ used = <<>> => newArea.color = POLYGON_PALETTE[1]
               /\ (PaletteColors \ Range(used) # {})
                    => newArea.color \notin Range(used)]_vars

\* ---- C18 ------------------------------------------------------------------
\* C18: for every count of at least 1 the palette generator returns count
\* colors, no two the same, each made from a hue at least the buffer of 30
\* degrees away from both reserved hues.
C18_PaletteDistinctAndClear ==
  (call.fn = "generateDistributedPalette" /\ ret.done)
    => /\ Len(ret.val) = call.arg
       /\ \A i, j \in 1..Len(ret.val) : ret.val[i] = ret.val[j] => i = j
       /\ \A i \in 1..call.arg, k \in 1..Len(RESERVED_HUES) :
            Wrapped(Abs(paletteHues(call.arg)[i] - RESERVED_HUES[k]), 360)
              >= reservedBuffer

\* ---- C19 ------------------------------------------------------------------
\* C19: addArea changes nothing when no project is open; with a project open
\* it appends one area that has the name and the parent given and no
\* features, leaves the areas that existed as they were, and sets dirty.
C19_AddAreaAppendsOne ==
  [][\A n \in Names, p \in ParentIds :
       AddArea(n, p)
         => IF ~project.open
            THEN /\ project' = project
                 /\ isDirty' = isDirty
                 /\ selectedAreaId' = selectedAreaId
            ELSE /\ Len(project'.areas) = Len(project.areas) + 1
                 /\ SubSeq(project'.areas, 1, Len(project.areas)) = project.areas
                 /\ project'.areas[Len(project'.areas)].name = n
                 /\ project'.areas[Len(project'.areas)].parentId = p
                 /\ project'.areas[Len(project'.areas)].featureIds = <<>>
                 /\ isDirty']_vars

\* addArea("B", 1) has appended to a project whose first area was renamed
C19_Witness ==
  /\ project.open
  /\ isDirty
  /\ Len(project.areas) = 2
  /\ project.areas[1].name = "B"
  /\ project.areas[1].featureIds = <<1>>
  /\ project.areas[2] = [id |-> 2, name |-> "B", parentId |-> 1,
                         color |-> AREA_COLORS[2], featureIds |-> <<>>]

\* ---- C20 ------------------------------------------------------------------
\* C20: updateArea(id, update) leaves every area as it was when no area has
\* that id; when one has, the areas with other ids stay as they were and the
\* updated area keeps its id; the number of areas and their ids, in order,
\* never change.
C20_UpdateAreaTouchesOne ==
  [][\A id \in CallIds, upd \in AreaUpdates :
       UpdateArea(id, upd)
         => /\ Len(project'.areas) = Len(project.areas)
            /\ \A i \in 1..Len(project.areas) :
                 /\ project'.areas[i].id = project.areas[i].id
                 /\ project.areas[i].id # id
                      => project'.areas[i] = project.areas[i]
            /\ (\A i \in 1..Len(project.areas) : project.areas[i].id # id)
                 => project'.areas = project.areas]_vars

\* updateArea has recolored and renamed the second of two areas and left the
\* first as addArea made it
C20_Witness ==
  /\ project.open
  /\ Len(project.areas) = 2
  /\ project.areas[1] = [id |-> 1, name |-> "A", parentId |-> Null,
                         color |-> AREA_COLORS[1], featureIds |-> <<>>]
  /\ project.areas[2].id = 2
  /\ project.areas[2].name = "B"
  /\ project.areas[2].color = Darker(AREA_COLORS[2], 60)

\* ---- C21 ------------------------------------------------------------------
\* a featureIds list with every occurrence of f taken out
RECURSIVE Dropped(_, _)
Dropped(fs, f) ==
  IF fs = <<>> THEN <<>>
  ELSE IF Head(fs) = f THEN Dropped(Tail(fs), f)
       ELSE <<Head(fs)>> \o Dropped(Tail(fs), f)

\* C21: removeFeatureFromArea(areaId, featureId) takes featureId out of the
\* featureIds of the area with areaId and leaves the featureIds of every other
\* area as they were; when that area does not hold featureId, or no area has
\* areaId, the featureIds of every area are as they were.
C21_RemoveFeatureTargetOnly ==
  [][last'.op = "removeFeatureFromArea"
       => \A f \in FeatureIds :
            RemoveFeatureFromArea(last'.id, f)
              => /\ Len(project'.areas) = Len(areas)
                 /\ \A i \in Indices :
                      project'.areas[i].featureIds =
                        IF areas[i].id = last'.id
                        THEN Dropped(areas[i].featureIds, f)
                        ELSE areas[i].featureIds
                 /\ (\A i \in Indices :
                       areas[i].id = last'.id => f \notin Range(areas[i].featureIds))
                      => \A i \in Indices :
                           project'.areas[i].featureIds = areas[i].featureIds]_vars

\* a feature was taken out of one area while another area still holds it
C21_Witness ==
  /\ last.op = "removeFeatureFromArea"
  /\ last.changed
  /\ \E i, j \in Indices :
       /\ areas[i].id = last.id
       /\ areas[i].featureIds = <<2>>
       /\ areas[j].id # last.id
       /\ areas[j].featureIds = <<1>>

\* ---- C22 ------------------------------------------------------------------
\* C22: after newProject has succeeded, from whatever state, the project is
\* open under the name given, has no area, is not dirty and nothing is
\* selected.
C22_NewProjectNamedAndEmpty ==
  [][\A n \in OneGivenName, path \in OnePath :
       NewProject(n, path)
         => /\ project'.open
            /\ project'.name = n
            /\ project'.areas = <<>>
            /\ ~isDirty'
            /\ selectedAreaId' = Null]_vars

\* ---- C29 ------------------------------------------------------------------
\* C29: whenever no project is open the dirty flag is false, at the start and
\* after any sequence of operations, mutations called with no project
\* included.
C29_NoProjectNotDirty == ~project.open => ~isDirty

\* ---- C30 ------------------------------------------------------------------
\* C30: in every state reached from a new project by adding and removing
\* areas and features the two color queries agree: areaColorMap has an entry
\* for a feature id exactly when getAreaColor is not null for it, and the two
\* colors are the same.
C30_ColorQueriesAgree ==
  \A f \in FeatureIds \cup {MaxFeature + 1} :
    /\ (f \in DOMAIN areaColorMap(project)) <=> (getAreaColor(project, f) # NoColor)
    /\ (f \in DOMAIN areaColorMap(project))
         => areaColorMap(project)[f] = getAreaColor(project, f)

\* the first of two areas of different colors holds two features, and both
\* queries give its color for them
C30_Witness ==
  /\ project.open
  /\ Len(project.areas) = 2
  /\ project.areas[1].color # project.areas[2].color
  /\ project.areas[1].featureIds = <<2, 1>>
  /\ getAreaColor(project, 1) = project.areas[1].color
  /\ areaColorMap(project)[2] = project.areas[1].color

\* ---- C26 ------------------------------------------------------------------
\* C26: for any value found in storage at start-up and after any sequence of
\* mouse-down, mouse-move and mouse-up events, the sidebar width is at least
\* 200 and at most 600.
C26_WidthWithinLimits ==
  sidebar.width >= MIN_WIDTH /\ sidebar.width <= MAX_WIDTH

\* a drag to the left was held at the minimum width, from a start-up over a
\* stored value out of range
C26_Witness ==
  /\ sidebar.isResizing
  /\ sidebar.stored = Item(<<"6", "0", "1">>)
  /\ sidebar.startWidth = DEFAULT_WIDTH
  /\ sidebar.startX = MaxDrag * DragStep
  /\ sidebar.width = MIN_WIDTH

\* ---- C24 -------------------------------------------------------------------
\* a step in which addLayerFromFiles fails: the FileList has no .shp file, or
\* the decoder rejects
FailedLoad ==
  \/ \E files \in LayerFiles : ~files.shp /\ AddLayerFromFiles(files)
  \/ \E k \in 1..Len(loads) : ~loads[k].decodes /\ LoadSettles(k)

\* C24: when addLayerFromFiles fails, because the files hold no shapefile or
\* because the decoder throws, error is a message afterwards and the layer
\* list is what it was; the failure is caught inside the call
C24_FailedLoadKeepsLayers ==
  [][FailedLoad => (layerError' /\ layers' = layers /\ ~layerIsLoading')]_vars

\* a load has failed with a layer in the list
C24_Witness ==
  /\ layerError
  /\ loads = <<>>
  /\ layers # <<>>

\* ---- C25 -------------------------------------------------------------------
PairwiseDifferentIds ==
  \A i, j \in 1..Len(layers) : layers[i].id = layers[j].id => i = j

Suffixed(baseLayerId, n) == baseLayerId \o <<"_">> \o ToDigits(n)

\* the base id followed by the first numeric suffix no listed layer has
FirstFreeSuffix(list, baseLayerId) ==
  Suffixed(baseLayerId,
           CHOOSE n \in 1..(Len(list) + 1) :
             /\ Suffixed(baseLayerId, n) \notin IdsOf(list)
             /\ \A m \in 1..(n - 1) : Suffixed(baseLayerId, m) \in IdsOf(list))

C28_LoadingWhileAnyWaits == loads # <<>> => layerIsLoading

\* ---- C23 -------------------------------------------------------------------
\* C23: for one load, or one open, at a time the loading flag is true from the
\* start of the operation until its collaborator resolves or rejects, and
\* whether the operation succeeds, is cancelled or fails the flag is false
\* again in the end
C23_LoadingUntilSettled ==
  /\ [](loads # <<>> => layerIsLoading)
  /\ [](running # <<>> => isLoading)
  /\ (layerIsLoading ~> ~layerIsLoading)
  /\ (isLoading ~> ~isLoading)

\* an open waits for the file it reads while a load waits for the decoder
C23_Witness ==
  /\ running # <<>>
  /\ running[1].stage = "file"
  /\ loads # <<>>
  /\ isLoading
  /\ layerIsLoading

\* ---- C27 -------------------------------------------------------------------
\* C27: a change of the areas or of their features made while saveProject or
\* saveProjectAs waits for the file to be written is still in the project
\* when the save has completed: the completing step leaves the project of
\* that moment as it is
C27_SaveKeepsMutations ==
  [][\A k \in 1..Len(running) : SaveSettles(k, TRUE) => project' = project]_vars

====
